---- MODULE Spec2Model ----
(***************************************************************************)
(* Supermarket Sales Dashboard (src/app.py): the memoized loader, the      *)
(* three sidebar widgets, the boolean-mask filter, the four KPIs and the   *)
(* four chart tables, as one state machine.  One step of the machine is    *)
(* one execution of the script from top to bottom: the first page load,    *)
(* or the rerun that follows a change of one widget.                       *)
(*                                                                         *)
(* Dates are the integers month*100 + day of one year (a Timestamp at      *)
(* midnight); the text of a date in the file is the pair <<first number,   *)
(* second number>>.  Sales are exact amounts in minor units.               *)
(***************************************************************************)
EXTENDS Integers, Sequences, FiniteSets, TLC

VARIABLES
    csv,         \* the rows of "supermarket.csv" (line 42); the file never changes
    cache,       \* what @st.cache_data holds for load_data: <<>> or <<frame>>
    reads,       \* how many times read_csv has read the file
    df,          \* the Dataset bound at line 53, as the latest run left it
    region,      \* the value of the region multiselect in the latest run
    category,    \* the value of the category multiselect in the latest run
    date_range,  \* the value of the date_input in the latest run
    out,         \* what the latest run computed: status, view, KPIs, chart tables
    memo         \* the observer's snapshot of an earlier run (SpecHist only)

vars == <<csv, cache, reads, df, region, category, date_range, out, memo>>

(* ------------------------------ bounds --------------------------------- *)

\* Longest input file, in rows.
MaxRows == 3

\* The days and months the date picker offers.
Days == {1, 2}

Months == {1, 2}

(* ------------------------------ markers -------------------------------- *)

\* A missing Postal Code cell of the file (NaN after read_csv); no code is negative.
Null == -1

\* float("nan"): the quotient 0/0, which is what the mean of no rows computes.
NaN == <<0, 0>>

(* ------------------------------ the file -------------------------------- *)

Row(reg, cat, od, sd, mode, sales, oid, cid, pc) ==
    ("Region" :> reg) @@ ("Category" :> cat) @@ ("Order Date" :> od) @@
    ("Ship Date" :> sd) @@ ("Ship Mode" :> mode) @@ ("Sales" :> sales) @@
    ("Order ID" :> oid) @@ ("Customer ID" :> cid) @@ ("Postal Code" :> pc)

\* Rows a file is made of: dates as day/month text, Postal Code possibly missing.
EastFood == Row("East", "Food", <<1, 2>>, <<2, 2>>, "Standard", 10, "O1", "C1", Null)

WestFood == Row("West", "Food", <<2, 1>>, <<1, 2>>, "Express", 20, "O2", "C1", 7)

EastToys == Row("East", "Toys", <<1, 1>>, <<2, 1>>, "Standard", 5, "O3", "C2", 7)

RowPool == {EastFood, WestFood, EastToys}

Files == UNION { [1..n -> RowPool] : n \in 1..MaxRows }

\* The files of the histories that are compared: two regions, and two categories.
HistFiles == { <<EastFood, WestFood>>, <<EastFood, EastToys>> }

(* ------------------------------ helpers --------------------------------- *)

Range(s) == { s[i] : i \in 1..Len(s) }

Column(frame, name) == [i \in 1..Len(frame) |-> frame[i][name]]

RECURSIVE sum(_)
sum(col) == IF col = <<>> THEN 0 ELSE col[1] + sum(Tail(col))

\* Series.unique(): the distinct values in order of first appearance.
RECURSIVE unique(_)
unique(col) ==
    IF col = <<>> THEN <<>>
    ELSE LET init == unique(SubSeq(col, 1, Len(col) - 1))
             last == col[Len(col)]
         IN  IF last \in Range(init) THEN init ELSE Append(init, last)

Min(S) == CHOOSE x \in S : \A y \in S : x <= y

Max(S) == CHOOSE x \in S : \A y \in S : y <= x

RECURSIVE sorted(_)
sorted(S) == IF S = {} THEN <<>> ELSE <<Min(S)>> \o sorted(S \ {Min(S)})

(* ------------------------------ load_data ------------------------------- *)

\* pd.to_datetime(text, dayfirst=...): which number of the text is the day.
to_datetime(text, dayfirst) ==
    IF dayfirst THEN text[2] * 100 + text[1] ELSE text[1] * 100 + text[2]

fillna(v, d) == IF v = Null THEN d ELSE v

\* pd.read_csv: the rows in file order under a RangeIndex 0, 1, 2, ...
read_csv(file) == [i \in 1..Len(file) |-> file[i] @@ ("index" :> (i - 1))]

\* The body of load_data: read, parse both dates day-first, fill Postal Code.
parse_file(file) ==
    LET raw == read_csv(file)
    IN  [i \in 1..Len(raw) |->
            [raw[i] EXCEPT !["Order Date"]  = to_datetime(@, TRUE),
                           !["Ship Date"]   = to_datetime(@, TRUE),
                           !["Postal Code"] = fillna(@, 0)]]

\* A mutant: the decorator left out, every call reads the file again.
load_data_uncached(store, file) ==
    LET d == parse_file(file) IN [df |-> d, cache |-> <<d>>, reads |-> 1]

\* @st.cache_data load_data(): a hit returns the stored frame and reads nothing.
load_data(store, file) ==
    IF store # <<>>
    THEN [df |-> store[1], cache |-> store, reads |-> 0]
    ELSE LET d == parse_file(file) IN [df |-> d, cache |-> <<d>>, reads |-> 1]

(* ------------------------------ widgets --------------------------------- *)

\* st.sidebar.multiselect / date_input: the session's value when the widget has
\* one, else the default.
widget(has_state, state, default) == IF has_state THEN state ELSE default

region_options(frame) == Range(unique(Column(frame, "Region")))

category_options(frame) == Range(unique(Column(frame, "Category")))

date_range_default(frame) ==
    << Min(Range(Column(frame, "Order Date"))),
       Max(Range(Column(frame, "Order Date"))) >>

\* What the calendar lets the user click.
PickDates == { m * 100 + d : m \in Months, d \in Days }

\* date_input in range mode returns one date while the range is half picked.
DateRanges == { <<a>> : a \in PickDates } \cup (PickDates \X PickDates)

(* ------------------------------ the filter ------------------------------ *)

isin(v, values) == v \in values

\* A mutant: the end of the interval taken exclusive.
keep_exclusive_end(r, reg, cat, dr) ==
    /\ isin(r["Region"], reg)
    /\ isin(r["Category"], cat)
    /\ r["Order Date"] >= dr[1]
    /\ r["Order Date"] < dr[2]

\* A mutant: the start of the interval taken exclusive.
keep_exclusive_start(r, reg, cat, dr) ==
    /\ isin(r["Region"], reg)
    /\ isin(r["Category"], cat)
    /\ r["Order Date"] > dr[1]
    /\ r["Order Date"] <= dr[2]

\* A mutant: the region mask joined with | instead of &.
keep_region_or(r, reg, cat, dr) ==
    \/ isin(r["Region"], reg)
    \/ /\ isin(r["Category"], cat)
       /\ r["Order Date"] >= dr[1]
       /\ r["Order Date"] <= dr[2]

\* The boolean mask of lines 87-90, for one row.
keep(r, reg, cat, dr) ==
    /\ isin(r["Region"], reg)
    /\ isin(r["Category"], cat)
    /\ r["Order Date"] >= dr[1]
    /\ r["Order Date"] <= dr[2]

RECURSIVE take(_, _)
take(frame, mask) ==
    IF frame = <<>> THEN <<>>
    ELSE (IF mask[1] THEN <<frame[1]>> ELSE <<>>) \o take(Tail(frame), Tail(mask))

RECURSIVE insert_by_date(_, _)
insert_by_date(r, frame) ==
    IF frame = <<>> THEN <<r>>
    ELSE IF r["Order Date"] < frame[1]["Order Date"] THEN <<r>> \o frame
    ELSE <<frame[1]>> \o insert_by_date(r, Tail(frame))

RECURSIVE sort_by_date(_)
sort_by_date(frame) ==
    IF frame = <<>> THEN <<>>
    ELSE insert_by_date(frame[Len(frame)], sort_by_date(SubSeq(frame, 1, Len(frame) - 1)))

\* A mutant: the rows dropped from the frame itself (drop(..., inplace=True)).
getitem_inplace(frame, mask) ==
    [self |-> take(frame, mask), result |-> take(frame, mask)]

\* A mutant: the selection handed back ordered by Order Date.
getitem_sorted(frame, mask) ==
    [self |-> frame, result |-> sort_by_date(take(frame, mask))]

\* df[mask]: a new frame of the rows whose mask is True, in the frame's order;
\* self is the frame the mask was applied to, as the call leaves it.
getitem(frame, mask) ==
    [self |-> frame, result |-> take(frame, mask)]

(* ------------------------------ KPIs ------------------------------------ *)

\* A mutant: the running total of the page is added to.
total_sales_running(view) ==
    (IF out.status = "ok" THEN out.total_sales ELSE 0)
        + sum(Column(view, "Sales"))

total_sales(view) == sum(Column(view, "Sales"))

\* A mutant: count() instead of nunique().
count(col) == Len(col)

nunique(col) == Len(unique(col))

\* Series.mean(): the exact quotient sum/n as the pair <<sum, n>>; 0/0 for no rows.
mean(col) == <<sum(col), Len(col)>>

(* ------------------------------ chart tables ---------------------------- *)

\* A mutant: groupby(..., sort=False), the groups in order of first appearance.
group_keys_unsorted(view) == unique(Column(view, "Order Date"))

\* groupby("Order Date") sorts the group keys.
group_keys(view) == sorted(Range(Column(view, "Order Date")))

group_rows(view, key) ==
    take(view, [i \in 1..Len(view) |-> view[i]["Order Date"] = key])

sales_time(view) ==
    LET keys == group_keys(view)
    IN  [k \in 1..Len(keys) |->
            [date |-> keys[k], sales |-> sum(Column(group_rows(view, keys[k]), "Sales"))]]

fig_bar(view) ==
    [i \in 1..Len(view) |-> <<view[i]["Category"], view[i]["Sales"]>>]

fig_hist(view) == Column(view, "Sales")

fig_scatter(view) ==
    [i \in 1..Len(view) |-> <<view[i]["Sales"], view[i]["Ship Mode"], view[i]["Region"]>>]

(* ------------------------------ the script ------------------------------ *)

\* A run that bound none of the outputs: status tells why, and the other fields
\* are fillers that stand for names the run never assigned.
Raised(what) ==
    [status |-> what, filtered_df |-> <<>>, total_sales |-> 0,
     total_orders |-> 0, total_customers |-> 0,
     avg_sales |-> NaN, sales_time |-> <<>>, fig_bar |-> <<>>,
     fig_hist |-> <<>>, fig_scatter |-> <<>>]

\* Lines 86-157 on the frame load_data returned and the widgets' values.
pipeline(frame, reg, cat, dr) ==
    IF Len(dr) < 2
    THEN [df |-> frame, out |-> Raised("IndexError")]
    ELSE LET sel  == getitem(frame, [i \in 1..Len(frame) |-> keep(frame[i], reg, cat, dr)])
             view == sel.result
         IN  [df  |-> sel.self,
              out |-> [status          |-> "ok",
                       filtered_df     |-> view,
                       total_sales     |-> total_sales(view),
                       total_orders    |-> nunique(Column(view, "Order ID")),
                       total_customers |-> nunique(Column(view, "Customer ID")),
                       avg_sales       |-> mean(Column(view, "Sales")),
                       sales_time      |-> sales_time(view),
                       fig_bar         |-> fig_bar(view),
                       fig_hist        |-> fig_hist(view),
                       fig_scatter     |-> fig_scatter(view)]]

\* One execution of the script; has_state says whether the session holds the
\* widget values reg, cat and dr (it does not on the first execution).
Run(has_state, reg, cat, dr) ==
    LET ld    == load_data(cache, csv)
        frame == ld.df
        r     == widget(has_state, reg, region_options(frame))
        c     == widget(has_state, cat, category_options(frame))
        d     == widget(has_state, dr, date_range_default(frame))
        p     == pipeline(frame, r, c, d)
    IN  /\ cache' = ld.cache
        /\ reads' = reads + ld.reads
        /\ region' = r
        /\ category' = c
        /\ date_range' = d
        /\ df' = p.df
        /\ out' = p.out
        /\ UNCHANGED csv

(* ------------------------------ actions --------------------------------- *)

\* The observer of SpecHist: once it holds a snapshot, it notes whether a later
\* run used another selection than the snapshot's.
observe(m, selection) ==
    IF m = <<>> THEN m
    ELSE <<[m[1] EXCEPT !.left = @ \/ selection # m[1].selection]>>

\* The script has run at least once in this process.
Ran == out.status # "not run"

\* The process has started and no session has opened the page.
Started ==
    /\ cache = <<>>
    /\ reads = 0
    /\ df = <<>>
    /\ region = {}
    /\ category = {}
    /\ date_range = <<>>
    /\ out = Raised("not run")
    /\ memo = <<>>

Init ==
    /\ csv \in Files
    /\ Started

\* The page is opened: the first execution, every widget at its default.
FirstRun ==
    /\ ~Ran
    /\ Run(FALSE, region, category, date_range)
    /\ memo' = observe(memo, <<region', category', date_range'>>)

\* The user changes the region multiselect; the script reruns.
SelectRegion ==
    /\ Ran
    /\ \E s \in SUBSET region_options(df) :
          /\ s # region
          /\ Run(TRUE, s, category, date_range)
    /\ memo' = observe(memo, <<region', category', date_range'>>)

\* The user changes the category multiselect; the script reruns.
SelectCategory ==
    /\ Ran
    /\ \E s \in SUBSET category_options(df) :
          /\ s # category
          /\ Run(TRUE, region, s, date_range)
    /\ memo' = observe(memo, <<region', category', date_range'>>)

\* The user clicks in the calendar; the script reruns.
SelectDates ==
    /\ Ran
    /\ \E d \in DateRanges :
          /\ d # date_range
          /\ Run(TRUE, region, category, d)
    /\ memo' = observe(memo, <<region', category', date_range'>>)

Next == FirstRun \/ SelectRegion \/ SelectCategory \/ SelectDates

Spec == Init /\ [][Next]_vars

(* --------------------- a second history to compare with ----------------- *)

\* The selection the latest run used.
Selection == <<region, category, date_range>>

\* An observer notes, once, the selection and the page of the latest run.
Snapshot ==
    /\ Ran
    /\ memo = <<>>
    /\ memo' = <<[selection |-> Selection, out |-> out, left |-> FALSE]>>
    /\ UNCHANGED <<csv, cache, reads, df, region, category, date_range, out>>

HistInit ==
    /\ csv \in HistFiles
    /\ Started

HistNext == Next \/ Snapshot

SpecHist == HistInit /\ [][HistNext]_vars

(* ------------------------------ claims ---------------------------------- *)

InRange(r) ==
    /\ r["Region"] \in region
    /\ r["Category"] \in category
    /\ date_range[1] <= r["Order Date"]
    /\ r["Order Date"] <= date_range[2]

\* C1: the Filtered View holds exactly the records of the Dataset whose Region is
\* selected, whose Category is selected and whose Order Date d has
\* dateStart <= d <= dateEnd: every record of the view satisfies the three
\* conditions, and every record of the Dataset that satisfies them is in the view.
FilterSoundAndComplete ==
    out.status = "ok" =>
        /\ \A i \in 1..Len(out.filtered_df) :
              /\ out.filtered_df[i] \in Range(df)
              /\ InRange(out.filtered_df[i])
        /\ \A j \in 1..Len(df) :
              InRange(df[j]) => df[j] \in Range(out.filtered_df)

\* A view that keeps a record dated on each end of the interval and drops another.
FilterWitness ==
    /\ out.status = "ok"
    /\ date_range[1] < date_range[2]
    /\ \E i \in 1..Len(out.filtered_df) : out.filtered_df[i]["Order Date"] = date_range[2]
    /\ \E i \in 1..Len(out.filtered_df) : out.filtered_df[i]["Order Date"] = date_range[1]
    /\ Len(out.filtered_df) < Len(df)

\* C2: whatever the widgets deliver (any subsets, an inverted range, a range with
\* one date only), the run ends with a page and never in an exception.
NoRunRaises == out.status \in {"not run", "ok"}

\* C3: once load_data has returned, no later run changes the Dataset: its records,
\* their fields and their order are after each run what they were before it.
DatasetNeverChanges == [][Ran => (df' = df /\ cache' = cache)]_vars

\* A rerun that filtered rows out of the view, with the Dataset still as loaded.
DatasetWitness ==
    /\ out.status = "ok"
    /\ Len(out.filtered_df) < Len(df)
    /\ Len(df) = Len(csv)
    /\ cache = <<df>>

DistinctCounts ==
    out.status = "ok" =>
        LET v == out.filtered_df
        IN  /\ out.total_orders = Cardinality({ v[i]["Order ID"] : i \in 1..Len(v) })
            /\ out.total_customers = Cardinality({ v[i]["Customer ID"] : i \in 1..Len(v) })
            /\ out.total_orders <= Len(v)
            /\ out.total_customers <= Len(v)

\* A view in which an order has several records and a customer several orders.
DistinctCountsWitness ==
    /\ out.status = "ok"
    /\ Len(out.filtered_df) = 3
    /\ out.total_orders = 2
    /\ out.total_customers = 1

\* C6: with no region selected and a date interval of two dates, whatever the
\* categories and the interval, the view is empty, total sales and both counts
\* are 0, the average sale is NaN and the four chart tables have no rows.
EmptyRegionEmptyPage ==
    (Ran /\ region = {} /\ Len(date_range) = 2) =>
        /\ out.status = "ok"
        /\ out.filtered_df = <<>>
        /\ out.total_sales = 0
        /\ out.total_orders = 0
        /\ out.total_customers = 0
        /\ out.avg_sales = NaN
        /\ out.sales_time = <<>>
        /\ out.fig_bar = <<>>
        /\ out.fig_hist = <<>>
        /\ out.fig_scatter = <<>>

\* No region selected while categories and interval would keep every record.
EmptyRegionWitness ==
    /\ Ran
    /\ region = {}
    /\ Len(date_range) = 2
    /\ \A j \in 1..Len(df) :
          /\ df[j]["Category"] \in category
          /\ date_range[1] <= df[j]["Order Date"]
          /\ df[j]["Order Date"] <= date_range[2]

\* C7: the view is a subsequence of the Dataset: its records are records of the
\* Dataset, each at most once, in the Dataset's order.
ViewIsSubsequence ==
    out.status = "ok" =>
        LET v == out.filtered_df
        IN  /\ \A i \in 1..Len(v) : v[i] \in Range(df)
            /\ \A i \in 1..(Len(v) - 1) : v[i]["index"] < v[i + 1]["index"]

\* A view of two or more records that are not in date order.
SubsequenceWitness ==
    /\ out.status = "ok"
    /\ Len(out.filtered_df) >= 2
    /\ Len(out.filtered_df) < Len(df)
    /\ out.filtered_df[1]["Order Date"] > out.filtered_df[2]["Order Date"]

\* C8: over any sequence of runs of one process the file is read and parsed at
\* most once, by the first run; every run has the Dataset that read produced:
\* the rows of the file in order, dates read day-first, a missing Postal Code 0.
FileReadOnce ==
    /\ reads <= 1
    /\ Ran =>
          /\ reads = 1
          /\ Len(df) = Len(csv)
          /\ \A i \in 1..Len(csv) :
                /\ df[i]["Order Date"] = csv[i]["Order Date"][2] * 100 + csv[i]["Order Date"][1]
                /\ df[i]["Ship Date"] = csv[i]["Ship Date"][2] * 100 + csv[i]["Ship Date"][1]
                /\ df[i]["Postal Code"] = (IF csv[i]["Postal Code"] = Null THEN 0 ELSE csv[i]["Postal Code"])
                /\ \A c \in {"Region", "Category", "Ship Mode", "Sales", "Order ID", "Customer ID"} :
                      df[i][c] = csv[i][c]

\* A later run (no region left selected, which the first run never has) of a
\* file with a missing Postal Code and a date whose two numbers differ.
FileReadOnceWitness ==
    /\ Ran
    /\ region = {}
    /\ reads = 1
    /\ \E i \in 1..Len(csv) : csv[i]["Postal Code"] = Null
    /\ \E i \in 1..Len(csv) : csv[i]["Order Date"][1] # csv[i]["Order Date"][2]

\* C9: the page of the latest run is determined by the Dataset and the current
\* selection alone: a run that ends a history in the selection an earlier run
\* had shows the page that earlier run showed.
SameSelectionSamePage ==
    (memo # <<>> /\ memo[1].selection = Selection) => memo[1].out = out

\* The session left the selection of the snapshot and came back to it, and the
\* page holds records.
SamePageWitness ==
    /\ memo # <<>>
    /\ memo[1].left
    /\ memo[1].selection = Selection
    /\ out.status = "ok"
    /\ out.filtered_df # <<>>

\* C10: with every Region and every Category of the Dataset selected and the
\* interval from its earliest to its latest Order Date, which is what the
\* widgets hold on the first run, the view is the whole Dataset and total_sales
\* the sum of Sales over all its records.
DefaultSelectionKeepsAll ==
    (/\ Ran
     /\ region = { df[i]["Region"] : i \in 1..Len(df) }
     /\ category = { df[i]["Category"] : i \in 1..Len(df) }
     /\ Len(date_range) = 2
     /\ \A i \in 1..Len(df) : date_range[1] <= df[i]["Order Date"]
     /\ \A i \in 1..Len(df) : df[i]["Order Date"] <= date_range[2])
    => /\ out.status = "ok"
       /\ out.filtered_df = df
       /\ out.total_sales = sum(Column(df, "Sales"))

\* The first run of a file of three records with two regions and two dates.
DefaultSelectionWitness ==
    /\ Ran
    /\ Len(df) = 3
    /\ region = {"East", "West"}
    /\ category = {"Food", "Toys"}
    /\ date_range = <<101, 201>>
    /\ out.filtered_df = df

====
